---------------------------- MODULE Spec2Model ----------------------------
(* Model of nam/data.py: Dataset (paired window dataset over two sample    *)
(* buffers) and ConcatDataset (concatenation of datasets by length).      *)
(*                                                                         *)
(* Buffers are 1-D sequences of integer samples.  A raw x buffer of length *)
(* n is <<1, ..., n>> and a raw y buffer is <<YBase+1, ..., YBase+n>>, so   *)
(* every sample value names the position it came from.  y_scale is an      *)
(* integer factor.  Python's None is the empty sequence, an optional       *)
(* integer v is <<v>>.                                                     *)
EXTENDS Integers, Sequences, FiniteSets, TLC

-----------------------------------------------------------------------------
(* Bounds of the model *)
MaxLen == 3
MaxOff == 1
MaxDelay == 2
MaxChildren == 2
MaxChildLen == 3

YBase == MaxLen + MaxChildLen + 1

None == << >>
Some(v) == <<v>>
Opt(S) == {None} \cup {Some(v) : v \in S}

RawX(n) == [i \in 1..n |-> i]
RawY(n) == [i \in 1..n |-> YBase + i]

LenVals == 0..MaxLen
(* y is as long as x (what parse_config enforces) or one sample short *)
YLenVals(lx) == {lx} \cup ({lx - 1} \cap LenVals)
NxVals == (0 - 1)..MaxLen
NyVals == Opt((0 - 1)..MaxLen)
OffVals == Opt((0 - MaxOff)..MaxOff)
DelayVals == Opt((0 - MaxDelay)..MaxDelay)
ScaleVals == {1, 2}
IdxVals == (0 - 2)..(MaxLen + 2)
ConcatIdxVals == (0 - 1)..(MaxChildren * MaxChildLen + 2)

-----------------------------------------------------------------------------
(* Python slicing z[start:stop] with step 1 (slice.indices): an absent     *)
(* bound is the buffer end, a negative bound counts from the end, and both *)
(* are clamped to [0, len].                                                *)
Clamp(v, n) == IF v < 0 THEN (IF v + n < 0 THEN 0 ELSE v + n)
               ELSE (IF v > n THEN n ELSE v)

SliceLo(n, start) == IF start = None THEN 0 ELSE Clamp(start[1], n)

SliceHi(n, stop) == IF stop = None THEN n ELSE Clamp(stop[1], n)

(* the half-open 0-based range <<lo, hi>> of s that s[start:stop] covers  *)
SliceRange(n, start, stop) ==
    LET lo == SliceLo(n, start)
        hi == SliceHi(n, stop)
    IN  IF lo < hi THEN <<lo, hi>> ELSE <<lo, lo>>

PySlice(s, start, stop) ==
    LET r == SliceRange(Len(s), start, stop)
    IN  IF r[1] < r[2] THEN SubSeq(s, r[1] + 1, r[2]) ELSE << >>

(* y * y_scale *)
Scale(s, k) == [i \in 1..Len(s) |-> s[i] * k]

-----------------------------------------------------------------------------
(* Dataset.__init__ *)

(* the delay trim of lines 132-138, swapped the way the docstring words it *)
DelayTrimSwapped(x, y, delay) ==
    IF delay = None THEN [x |-> x, y |-> y]
    ELSE IF delay[1] > 0
         THEN [x |-> PySlice(x, Some(delay[1]), None),
               y |-> PySlice(y, None, Some(0 - delay[1]))]
         ELSE [x |-> PySlice(x, None, Some(delay[1])),
               y |-> PySlice(y, Some(0 - delay[1]), None)]

(* lines 132-138; delay = 0 takes the else branch, where x[-0:] is all of  *)
(* x and y[:0] is empty                                                    *)
DelayTrim(x, y, delay) ==
    IF delay = None THEN [x |-> x, y |-> y]
    ELSE IF delay[1] > 0
         THEN [x |-> PySlice(x, None, Some(0 - delay[1])),
               y |-> PySlice(y, Some(delay[1]), None)]
         ELSE [x |-> PySlice(x, Some(0 - delay[1]), None),
               y |-> PySlice(y, None, Some(delay[1]))]

(* the locals x, y of __init__ after line 139 *)
Trimmed(a) ==
    LET sx == PySlice(a.x, a.start, a.stop)
        sy == PySlice(a.y, a.start, a.stop)
        d  == DelayTrim(sx, sy, a.delay)
    IN  [x |-> d.x, y |-> Scale(d.y, a.y_scale)]

(* _validate_inputs: TRUE iff no assertion fails (buffers are 1-D here)    *)
validate_inputs(x, y, nx, ny) ==
    /\ Len(x) = Len(y)
    /\ nx <= Len(x)
    /\ (ny # None => ny[1] <= Len(y) - nx + 1)

NoDataset == [cls |-> "none", x |-> << >>, y |-> << >>, nx |-> 0, ny |-> 0]

(* the object __init__ leaves behind, or NoDataset when it raised *)
Dataset_init(a) ==
    LET t == Trimmed(a)
    IN  IF validate_inputs(t.x, t.y, a.nx, a.ny)
        THEN [cls |-> "Dataset", x |-> t.x, y |-> t.y, nx |-> a.nx,
              ny |-> IF a.ny # None THEN a.ny[1] ELSE Len(t.x) - a.nx + 1]
        ELSE NoDataset

-----------------------------------------------------------------------------
(* Results of a call *)
NoRet == [op |-> "none", idx |-> 0, kind |-> "none", exc |-> "none",
          val |-> 0, xw |-> << >>, yw |-> << >>,
          xr |-> <<0, 0>>, yr |-> <<0, 0>>, child |-> 0, cidx |-> 0]

Raise(e) == [NoRet EXCEPT !.kind = "raise", !.exc = e]

Value(v) == [NoRet EXCEPT !.kind = "value", !.val = v]

(* __len__ with single_pairs short by one (n - nx instead of n - nx + 1) *)
LenNoPlusOne(d) ==
    IF d.ny = 0 THEN Raise("ZeroDivisionError")
    ELSE Value((Len(d.x) - d.nx) \div d.ny)

(* Dataset.__len__; // is floor division and raises on a zero divisor *)
Dataset_len(d) ==
    IF d.ny = 0 THEN Raise("ZeroDivisionError")
    ELSE Value((Len(d.x) - d.nx + 1) \div d.ny)

(* the builtin len(d): __len__ must return a value >= 0 *)
PyLen(d) ==
    LET r == Dataset_len(d)
    IN  IF r.kind = "value" /\ r.val < 0 THEN Raise("ValueError") ELSE r

(* y_offset without the - 1 *)
y_offset_off(d) == d.nx

(* Dataset.y_offset *)
y_offset(d) == d.nx - 1

(* Dataset.__getitem__ *)
Dataset_getitem(d, idx) ==
    LET l == PyLen(d)
    IN  IF l.kind = "raise" THEN l
        ELSE IF idx >= l.val THEN Raise("IndexError")
        ELSE LET i == idx * d.ny
                 j == i + y_offset(d)
             IN  [NoRet EXCEPT
                    !.kind = "windows",
                    !.xw = PySlice(d.x, Some(i), Some(i + d.nx + d.ny - 1)),
                    !.yw = PySlice(d.y, Some(j), Some(j + d.ny)),
                    !.xr = SliceRange(Len(d.x), Some(i), Some(i + d.nx + d.ny - 1)),
                    !.yr = SliceRange(Len(d.y), Some(j), Some(j + d.ny))]

-----------------------------------------------------------------------------
(* ConcatDataset *)

(* ConcatDataset(()), a dataset of length 0 *)
EmptyConcat == [NoDataset EXCEPT !.cls = "ConcatDataset"]

ReturnNone == [NoRet EXCEPT !.kind = "None"]

(* len(d) and d[idx] of a child d *)
ChildLen(d) == IF d.cls = "Dataset" THEN PyLen(d) ELSE Value(0)

ChildGetItem(d, idx) ==
    IF d.cls = "Dataset" THEN Dataset_getitem(d, idx) ELSE ReturnNone

(* the else branch leaving idx as it is *)
ResidualKept(idx, l) == idx

(* idx = idx - len(d) *)
Residual(idx, l) == idx - l

RECURSIVE ConcatScan(_, _, _)
(* the for loop of ConcatDataset.__getitem__ from child k on *)
ConcatScan(ds, k, idx) ==
    IF k > Len(ds) THEN ReturnNone
    ELSE LET l == ChildLen(ds[k])
         IN  IF l.kind = "raise" THEN l
             ELSE IF idx < l.val
                  THEN [ChildGetItem(ds[k], idx) EXCEPT !.child = k, !.cidx = idx]
                  ELSE ConcatScan(ds, k + 1, Residual(idx, l.val))

ConcatDataset_getitem(ds, idx) == ConcatScan(ds, 1, idx)

RECURSIVE SumLen(_, _, _)
SumLen(ds, k, acc) ==
    IF k > Len(ds) THEN Value(acc)
    ELSE LET l == ChildLen(ds[k])
         IN  IF l.kind = "raise" THEN l ELSE SumLen(ds, k + 1, acc + l.val)

(* ConcatDataset.__len__ *)
ConcatDataset_len(ds) == SumLen(ds, 1, 0)

(* the datasets a ConcatDataset is composed of in this model *)
ChildArgs ==
    {[x |-> RawX(n), y |-> RawY(n), nx |-> nx, ny |-> ny, start |-> None,
      stop |-> None, delay |-> None, y_scale |-> 1, called |-> TRUE] :
        n \in 1..MaxChildLen, nx \in 1..MaxChildLen, ny \in Opt(0..MaxChildLen)}

Children ==
    {EmptyConcat} \cup
    {d \in {Dataset_init(a) : a \in {b \in ChildArgs : b.nx \in {1, Len(b.x)}}} :
        d.cls = "Dataset"}

SeqsUpTo(S, n) == UNION {[1..k -> S] : k \in 0..n}

(* a Dataset of n samples with nx = 1, ny = 1: its length is n *)
Child35(n) == Dataset_init([x |-> RawX(n), y |-> RawY(n), nx |-> 1,
                            ny |-> Some(1), start |-> None, stop |-> None,
                            delay |-> None, y_scale |-> 1, called |-> TRUE])

(* children of lengths 3 and 5 *)
Datasets35 == <<Child35(3), Child35(5)>>

-----------------------------------------------------------------------------
VARIABLES
    args,    \* the arguments Dataset.__init__ was called with
    trim,    \* the locals x, y of __init__ when it reaches _validate_inputs
    self,    \* the Dataset object, NoDataset before __init__ and when it raised
    ret,     \* the outcome of the last call on the Dataset
    concat,  \* the ConcatDataset object
    cret     \* the outcome of the last call on the ConcatDataset

vars == <<args, trim, self, ret, concat, cret>>

NoConcat == [built |-> FALSE, datasets |-> << >>]

NoArgs == [x |-> << >>, y |-> << >>, nx |-> 0, ny |-> None, start |-> None,
           stop |-> None, delay |-> None, y_scale |-> 1, called |-> FALSE]

Init ==
    /\ args = NoArgs
    /\ trim = [x |-> << >>, y |-> << >>]
    /\ self = NoDataset
    /\ ret = NoRet
    /\ concat = NoConcat
    /\ cret = NoRet

(* 100 samples, nx = 10, ny = 5, no start, stop or delay *)
Args100 == [x |-> RawX(100), y |-> RawY(100), nx |-> 10, ny |-> Some(5),
            start |-> None, stop |-> None, delay |-> None, y_scale |-> 1,
            called |-> TRUE]

(* the body of __init__ on the arguments a *)
Construct(a) ==
    /\ args' = a
    /\ trim' = Trimmed(a)
    /\ self' = Dataset_init(a)

(* Dataset(x, y, nx, ny, start, stop, delay, y_scale): the arguments are    *)
(* the 100-sample input Args100 or are drawn from the bounded sets          *)
DatasetInit ==
    /\ ~args.called
    /\ \/ Construct(Args100)
       \/ \E lx \in LenVals :
             \E ly \in YLenVals(lx), nx \in NxVals, ny \in NyVals,
                start \in OffVals, stop \in OffVals, delay \in DelayVals,
                y_scale \in ScaleVals :
                Construct([x |-> RawX(lx), y |-> RawY(ly), nx |-> nx,
                           ny |-> ny, start |-> start, stop |-> stop,
                           delay |-> delay, y_scale |-> y_scale,
                           called |-> TRUE])
    /\ UNCHANGED <<ret, concat, cret>>

(* dataset[idx] *)
DatasetGetItem ==
    /\ self.cls = "Dataset"
    /\ \E idx \in IdxVals :
          ret' = [Dataset_getitem(self, idx) EXCEPT !.op = "getitem", !.idx = idx]
    /\ UNCHANGED <<args, trim, self, concat, cret>>

(* dataset.__len__() *)
DatasetLen ==
    /\ self.cls = "Dataset"
    /\ ret' = [Dataset_len(self) EXCEPT !.op = "len"]
    /\ UNCHANGED <<args, trim, self, concat, cret>>

Next == DatasetInit \/ DatasetGetItem \/ DatasetLen

Spec == Init /\ [][Next]_vars

(* ConcatDataset(datasets) *)
ConcatInit ==
    /\ ~concat.built
    /\ \E ds \in {Datasets35} \cup SeqsUpTo(Children, MaxChildren) :
          concat' = [built |-> TRUE, datasets |-> ds]
    /\ UNCHANGED <<args, trim, self, ret, cret>>

(* concat[idx] *)
ConcatGetItem ==
    /\ concat.built
    /\ \E idx \in ConcatIdxVals :
          cret' = [ConcatDataset_getitem(concat.datasets, idx)
                     EXCEPT !.op = "getitem", !.idx = idx]
    /\ UNCHANGED <<args, trim, self, ret, concat>>

(* len(concat) *)
ConcatLen ==
    /\ concat.built
    /\ cret' = [ConcatDataset_len(concat.datasets) EXCEPT !.op = "len"]
    /\ UNCHANGED <<args, trim, self, ret, concat>>

NextConcat == ConcatInit \/ ConcatGetItem \/ ConcatLen

SpecConcat == Init /\ [][NextConcat]_vars


-----------------------------------------------------------------------------
(* Properties of Dataset *)

Built == self.cls = "Dataset"

(* the number of whole ny-chunks, N of the data model; used where ny > 0 *)
N(d) == (Len(d.x) - d.nx + 1) \div d.ny

(* idx is a valid index of the built dataset *)
InRange(idx) ==
    /\ PyLen(self).kind = "value"
    /\ 0 <= idx
    /\ idx < PyLen(self).val

(* C1: for a dataset built with nx >= 1 and ny >= 1 and an index idx in     *)
(* [0, length()), get(idx) returns x[idx*ny : idx*ny + nx + ny - 1], of     *)
(* length nx + ny - 1, and y[idx*ny + nx - 1 : idx*ny + nx - 1 + ny], of    *)
(* length ny, and both ranges lie inside the trimmed buffers.               *)
C1_WindowsExact ==
    (/\ Built
     /\ self.nx >= 1
     /\ self.ny >= 1
     /\ ret.op = "getitem"
     /\ 0 <= ret.idx
     /\ ret.idx < N(self))
    => LET i == ret.idx * self.ny
           j == i + self.nx - 1
       IN  /\ ret.kind = "windows"
           /\ i + self.nx + self.ny - 1 <= Len(self.x)
           /\ j + self.ny <= Len(self.y)
           /\ Len(ret.xw) = self.nx + self.ny - 1
           /\ Len(ret.yw) = self.ny
           /\ \A k \in 1..(self.nx + self.ny - 1) : ret.xw[k] = self.x[i + k]
           /\ \A k \in 1..self.ny : ret.yw[k] = self.y[j + k]

C1_Witness ==
    /\ Built
    /\ self.nx = 2
    /\ self.ny = 1
    /\ ret.op = "getitem"
    /\ ret.idx = 1
    /\ ret.kind = "windows"
    /\ Len(ret.xw) = 2
    /\ Len(ret.yw) = 1

(* C2: for every index in [0, length()) the y window of get(idx) occupies   *)
(* the range [nx - 1 + idx*ny, nx - 1 + (idx+1)*ny) of the y buffer, so the *)
(* window of idx + 1 starts where the window of idx ends and the windows    *)
(* partition y[nx-1 : nx-1 + length()*ny].                                  *)
C2_YWindowsTile ==
    (Built /\ ret.op = "getitem" /\ InRange(ret.idx))
    => /\ ret.kind = "windows"
       /\ ret.yr = <<self.nx - 1 + ret.idx * self.ny,
                     self.nx - 1 + (ret.idx + 1) * self.ny>>
       /\ InRange(ret.idx + 1)
          => Dataset_getitem(self, ret.idx + 1).yr[1] = ret.yr[1] + self.ny

(* the length formula of the data model, with the length n100 it gives for *)
(* 100 samples, nx = 10, ny = 5                                            *)
LengthClaim(n100) ==
    /\ (Built /\ args.ny = None) => self.ny = Len(self.x) - self.nx + 1
    /\ (Built /\ ret.op = "len" /\ self.ny # 0)
       => LET sp == Len(self.x) - self.nx + 1
          IN  /\ ret.kind = "value"
              /\ self.ny > 0 => /\ ret.val * self.ny <= sp
                                /\ sp < (ret.val + 1) * self.ny
              /\ self.ny < 0 => /\ ret.val * self.ny >= sp
                                /\ sp > (ret.val + 1) * self.ny
    /\ (args = Args100 /\ ret.op = "len") => (Built /\ ret.val = n100)

(* C3 as stated: __len__ returns (len(x) - nx + 1) // ny on the trimmed     *)
(* buffers, the floor of the quotient (a trailing partial chunk is          *)
(* dropped); an absent ny is resolved by __init__ to len(x) - nx + 1; and   *)
(* 100 samples with nx = 10, ny = 5 give length 19.                         *)
C3_LengthIs19 == LengthClaim(19)

(* C3 as amended: the same, and 100 samples with nx = 10, ny = 5 give       *)
(* length (100 - 10 + 1) // 5 = 18.                                         *)
C3_LengthFormula == LengthClaim(18)

C3_Witness ==
    /\ args = Args100
    /\ Built
    /\ Len(self.x) = 100
    /\ ret.op = "len"
    /\ ret.kind = "value"
    /\ ret.val = 18
    /\ ret.val * self.ny < Len(self.x) - self.nx + 1

(* C4: on a dataset with nx >= 1 and ny >= 1, get(idx) raises IndexError    *)
(* for every idx outside [0, length()), negative ones included, and         *)
(* get(length() - 1) returns windows.                                       *)
C4_IndexOutOfRange ==
    (Built /\ self.nx >= 1 /\ self.ny >= 1 /\ ret.op = "getitem")
    => /\ (ret.idx < 0 \/ ret.idx >= N(self))
          => (ret.kind = "raise" /\ ret.exc = "IndexError")
       /\ ret.idx = N(self) - 1 => ret.kind = "windows"

(* C7: with raw buffers of equal length, __init__ with delay = 0 has the    *)
(* outcome of __init__ with delay absent: it succeeds exactly when that one *)
(* does and leaves the same buffers and geometry, hence the same length.    *)
C7_ZeroDelayNoOp ==
    (/\ args.called
     /\ Len(args.x) = Len(args.y)
     /\ args.delay = Some(0))
    => /\ self = Dataset_init([args EXCEPT !.delay = None])
       /\ trim = Trimmed([args EXCEPT !.delay = None])

C9_ValidationComplete ==
    Built
    => /\ ret.op = "len" => (ret.kind = "value" /\ ret.val >= 0)
       /\ PyLen(self).kind = "value"
       /\ (ret.op = "getitem" /\ InRange(ret.idx))
          => /\ ret.kind = "windows"
             /\ Len(ret.xw) = self.nx + self.ny - 1
             /\ Len(ret.yw) = self.ny

(* C10: __init__ raises, and leaves no dataset, whenever nx > len(x), or ny *)
(* is given and ny > len(y) - nx + 1, or the trimmed x or y has length <= 0, *)
(* whatever nx and ny are.                                                  *)
C10_ConstructionFails ==
    (/\ args.called
     /\ \/ args.nx > Len(trim.x)
        \/ (args.ny # None /\ args.ny[1] > Len(trim.y) - args.nx + 1)
        \/ Len(trim.x) <= 0
        \/ Len(trim.y) <= 0)
    => self = NoDataset

-----------------------------------------------------------------------------
(* Properties of ConcatDataset *)

(* every child has a length *)
AllLensOk == \A k \in 1..Len(concat.datasets) :
                ChildLen(concat.datasets[k]).kind = "value"

RECURSIVE PrefixLen(_, _)
(* len(c_0) + ... + len(c_{j-1}) *)
PrefixLen(ds, j) ==
    IF j = 0 THEN 0 ELSE PrefixLen(ds, j - 1) + ChildLen(ds[j]).val

(* with children of lengths [3, 5]: 0..2 go to the first child unchanged,  *)
(* 3..7 to the second with idx - 3, and the length is 8                     *)
Example35 ==
    concat = [built |-> TRUE, datasets |-> Datasets35]
    => /\ cret.op = "len" => cret.val = 8
       /\ (cret.op = "getitem" /\ cret.idx \in 0..2)
          => cret = [Dataset_getitem(Datasets35[1], cret.idx)
                       EXCEPT !.op = "getitem", !.idx = cret.idx,
                              !.child = 1, !.cidx = cret.idx]
       /\ (cret.op = "getitem" /\ cret.idx \in 3..7)
          => cret = [Dataset_getitem(Datasets35[2], cret.idx - 3)
                       EXCEPT !.op = "getitem", !.idx = cret.idx,
                              !.child = 2, !.cidx = cret.idx - 3]

(* C5: concat[idx] raises IndexError for every idx outside [0, length()),   *)
(* length() the sum of the children's lengths: when the scan exhausts the   *)
(* children, an empty sequence of children included, and when idx < 0.      *)
C5_ConcatIndexOutOfRange ==
    LET ds == concat.datasets
    IN  (/\ concat.built
         /\ AllLensOk
         /\ cret.op = "getitem"
         /\ (cret.idx < 0 \/ cret.idx >= PrefixLen(ds, Len(ds))))
        => (cret.kind = "raise" /\ cret.exc = "IndexError")

(* C6: the length of a ConcatDataset is the sum of its children's lengths,  *)
(* and for idx in [0, length()) concat[idx] is c_j[idx - (len(c_0) + ... +  *)
(* len(c_{j-1}))] for the one child j whose cumulative range holds idx;     *)
(* with lengths [3, 5], 0..2 go to child 0 unchanged and 3..7 to child 1    *)
(* with idx - 3.                                                            *)
C6_ConcatDelegates ==
    LET ds == concat.datasets
    IN  /\ (concat.built /\ AllLensOk /\ cret.op = "len")
           => cret = [Value(PrefixLen(ds, Len(ds))) EXCEPT !.op = "len"]
        /\ (/\ concat.built
            /\ AllLensOk
            /\ cret.op = "getitem"
            /\ 0 <= cret.idx
            /\ cret.idx < PrefixLen(ds, Len(ds)))
           => \E j \in 1..Len(ds) :
                 /\ \A h \in 1..Len(ds) :
                       (/\ PrefixLen(ds, h - 1) <= cret.idx
                        /\ cret.idx < PrefixLen(ds, h)) <=> h = j
                 /\ cret = [ChildGetItem(ds[j], cret.idx - PrefixLen(ds, j - 1))
                              EXCEPT !.op = "getitem", !.idx = cret.idx,
                                     !.child = j,
                                     !.cidx = cret.idx - PrefixLen(ds, j - 1)]
        /\ Example35

C6_Witness ==
    /\ concat.built
    /\ Len(concat.datasets) = 2
    /\ concat.datasets[1] = EmptyConcat
    /\ cret.op = "getitem"
    /\ cret.idx = 1
    /\ cret.child = 2
    /\ cret.cidx = 1
    /\ cret.kind = "windows"

=============================================================================
